---- MODULE Spec2Model ----
(***************************************************************************)
(* Model of aws-secretsmanager-stage-deprecater.                           *)
(*                                                                         *)
(* Two entry points are modelled:                                          *)
(*   "action" : run() -> trimStagesWithClient() -> pickOldestStageToDeprecate *)
(*              (the refactored module, src/unnamed/part_000)              *)
(*   "legacy" : run() with the whole pipeline inline (src/index.js)        *)
(* The remote secrets service is the collaborator: it serves the versions  *)
(* of one secret page by page and removes one stage label on request.      *)
(* Every action is one suspension-point-to-suspension-point step of the    *)
(* async code: a remote call is issued, its response (or failure) arrives, *)
(* and all synchronous code up to the next remote call or the end runs.    *)
(*                                                                         *)
(* Specifications:                                                         *)
(*   Spec         one invocation with given parameters                     *)
(*   SelSpec      pickOldestStageToDeprecate on its own                    *)
(*   RunSpec      run() from its raw action inputs                         *)
(*   TokenSpec    one invocation, the service ending its listing with an   *)
(*                absent token, an empty token, or never (weakly fair)     *)
(*   RepeatSpec   an invocation followed by a second one                   *)
(*   ConvergeSpec invocations repeated for ever (weakly fair)              *)
(*   OverlapSpec  two invocations at the same time                         *)
(***************************************************************************)
EXTENDS Integers, Sequences, FiniteSets, TLC

VARIABLES
    entry,        \* which program runs: "action" | "legacy" | "selector"
    inputs,       \* the raw action inputs run() reads with core.getInput
    service,      \* how the service ends a listing: "paged"|"blank"|"endless"
    served,       \* the NextToken of every listing response, in order
    initial,      \* the secret's versions before the first invocation
    lastRun,      \* what the previous invocation collected and removed
    other,        \* the local state of an overlapping second invocation
    params,       \* [secretId, threshold, excludeStages, dryRun] of the run
    remote,       \* the secret's versions as the service holds them
    pageLen,      \* how many versions the service puts on one page
    pc,           \* "entry" | "listing" | "updating" | "done" | "idle"
    nextToken,    \* the local nextToken
    labeled,      \* the local labeled array
    calls,        \* every command handed to client.send, in order
    outcomes,     \* how the service answered each call: "ok" | "error"
    uniqueStages, \* the local uniqueStages, once computed
    candidate,    \* the selected record (candidate / oldest), once computed
    result,       \* what trimStagesWithClient returned or threw
    announced,    \* legacy: the pair named by the "Will deprecate" line
    output,       \* the action outputs: trimmed output and failure message
    selStages,    \* selector harness: the stages argument
    selThreshold, \* selector harness: the threshold argument
    selResult     \* selector harness: the returned value

vars == <<entry, params, remote, pageLen, pc, nextToken, labeled, calls,
          outcomes, uniqueStages, candidate, result, announced, output,
          selStages, selThreshold, selResult, inputs, service, served,
          initial, lastRun, other>>

pipeVars == <<params, remote, pageLen, pc, nextToken, labeled, calls,
              outcomes, uniqueStages, candidate, result, announced, output,
              served>>

\* what no step of a single invocation changes
envVars == <<inputs, service, initial, lastRun, other>>

selVars == <<selStages, selThreshold, selResult>>

-----------------------------------------------------------------------------
\* Bounds of the model

MaxVersions == 2

MaxDate == 1

MaxThreshold == 2

MaxSelLen == 3

-----------------------------------------------------------------------------
\* Values

Null == [kind |-> "null"]

Undefined == [kind |-> "undefined"]

Pending == [kind |-> "pending"]

\* the empty string, as a continuation token
EmptyToken == [kind |-> "empty-string"]

Falsy(x) == x = Null \/ x = Undefined \/ x = EmptyToken

Epoch == 0

\* the number parseInt returns for text that is no integer; it is kept apart
\* from every threshold and every length, and AtMost gives its comparisons
NaN == 0 - 1000

MaxResults == 100

DefaultExcludeStages == {"AWSCURRENT", "AWSPREVIOUS", "AWSPENDING"}

VersionIds == <<"v1", "v2", "v3", "v4", "v5">>

CustomStages == {"a", "b"}

StageNames == CustomStages \cup {"AWSCURRENT"}

\* VersionStages of one version entry: none, one label, or two labels
VersionStageLists ==
    {<<>>} \cup {<<s>> : s \in StageNames} \cup {<<"a", "b">>}

\* CreatedDate of one version entry: absent (<<>>) or present (<<d>>)
CreatedDates == {<<>>} \cup {<<d>> : d \in 1..MaxDate}

Thresholds == (0 - 1)..MaxThreshold

ExcludeSets == {DefaultExcludeStages, {}, DefaultExcludeStages \cup {"a"}}

SecretIds == {"my/secret"}

\* what a failing listing call and a failing mutation call throw
ListError == "ListError"

UpdateError == "UpdateError"

-----------------------------------------------------------------------------
\* Collection: flattening version entries into label records

\* mutant: a missing CreatedDate becomes a date after every present one
ToDateLatest(created) == IF created = <<>> THEN MaxDate + 1 ELSE created[1]

\* CreatedDate ? new Date(CreatedDate) : new Date(0)
ToDate(created) == IF created = <<>> THEN Epoch ELSE created[1]

\* the records one version entry pushes onto labeled
LabelsOfVersion(v) ==
    IF Len(v.VersionStages) = 0
    THEN <<>>
    ELSE [i \in 1..Len(v.VersionStages) |->
            [stage |-> v.VersionStages[i],
             versionId |-> v.VersionId,
             createdDate |-> ToDate(v.CreatedDate)]]

RECURSIVE CollectPage(_, _)
\* for (const v of resp.Versions || []) { ... labeled.push(...) }
\* (each iteration's array is bound to its value before the next one)
CollectPage(acc, versions) ==
    IF versions = <<>>
    THEN acc
    ELSE CHOOSE out \in
            {CollectPage(pushed, rest) :
                pushed \in {acc \o LabelsOfVersion(Head(versions))},
                rest \in {Tail(versions)}} : TRUE

-----------------------------------------------------------------------------
\* Filter and deduplicate: the Map latestByStage as an insertion-ordered
\* sequence of records, one per key

MapHas(m, stage) == \E i \in 1..Len(m) : m[i].stage = stage

MapGet(m, stage) ==
    IF MapHas(m, stage)
    THEN m[CHOOSE i \in 1..Len(m) : m[i].stage = stage]
    ELSE Undefined

\* Map.prototype.set: an existing key keeps its position
MapSet(m, e) ==
    IF MapHas(m, e.stage)
    THEN [i \in 1..Len(m) |-> IF m[i].stage = e.stage THEN e ELSE m[i]]
    ELSE Append(m, e)

\* mutant: a record of equal createdDate replaces the stored one
KeepLatestOrEqual(m, e) ==
    LET prev == MapGet(m, e.stage)
    IN  IF Falsy(prev) THEN MapSet(m, e)
        ELSE IF e.createdDate >= prev.createdDate THEN MapSet(m, e)
        ELSE m

\* mutant: the first record seen for a stage is never replaced
KeepFirst(m, e) == IF MapHas(m, e.stage) THEN m ELSE Append(m, e)

\* mutant: every record is kept, a stage seen twice is stored twice
KeepEvery(m, e) == Append(m, e)

\* if (!prev || e.createdDate > prev.createdDate) latestByStage.set(e.stage, e)
KeepLatest(m, e) ==
    LET prev == MapGet(m, e.stage)
    IN  IF Falsy(prev) THEN MapSet(m, e)
        ELSE IF e.createdDate > prev.createdDate THEN MapSet(m, e)
        ELSE m

\* mutant: the exclusion set is never consulted
IsExcludedNever(excludeStages, e) == FALSE

\* excludeStages.has(e.stage)
IsExcluded(excludeStages, e) == e.stage \in excludeStages

RECURSIVE LatestByStage(_, _, _)
\* the loop over labeled that fills latestByStage; Array.from(values())
LatestByStage(m, records, excludeStages) ==
    IF records = <<>>
    THEN m
    ELSE CHOOSE out \in
            {LatestByStage(next, rest, excludeStages) :
                next \in {IF IsExcluded(excludeStages, Head(records)) THEN m
                          ELSE KeepLatest(m, Head(records))},
                rest \in {Tail(records)}} : TRUE

RECURSIVE DedupeLatest(_, _)
\* legacy: for (const e of manageable) { ... } over the already filtered list
DedupeLatest(m, records) ==
    IF records = <<>>
    THEN m
    ELSE CHOOSE out \in
            {DedupeLatest(next, rest) :
                next \in {KeepLatest(m, Head(records))},
                rest \in {Tail(records)}} : TRUE

\* legacy: labeled.filter(entry => !excludeStages.has(entry.stage))
Manageable(records, excludeStages) ==
    SelectSeq(records, LAMBDA e : ~IsExcluded(excludeStages, e))

-----------------------------------------------------------------------------
\* Selector

\* the comparator (a, b) => a.createdDate - b.createdDate
CompareCreated(a, b) == a.createdDate - b.createdDate

\* mutant: an unstable sort, e goes before the elements it ties with
InsertSortedUnstable(sorted, e) ==
    LET before == {i \in 1..Len(sorted) : CompareCreated(sorted[i], e) < 0}
        k == Cardinality(before)
    IN  SubSeq(sorted, 1, k) \o <<e>> \o SubSeq(sorted, k + 1, Len(sorted))

\* one step of a stable sort: e goes after every element that does not
\* compare greater than it
InsertSorted(sorted, e) ==
    LET before == {i \in 1..Len(sorted) : CompareCreated(sorted[i], e) <= 0}
        k == Cardinality(before)
    IN  SubSeq(sorted, 1, k) \o <<e>> \o SubSeq(sorted, k + 1, Len(sorted))

RECURSIVE SortInto(_, _)
SortInto(sorted, rest) ==
    IF rest = <<>>
    THEN sorted
    ELSE CHOOSE out \in
            {SortInto(next, tail) :
                next \in {InsertSorted(sorted, Head(rest))},
                tail \in {Tail(rest)}} : TRUE

\* Array.prototype.toSorted with CompareCreated (a stable sort)
ToSorted(stages) == SortInto(<<>>, stages)

\* sorted[0]: undefined on an empty array
First(sorted) == IF Len(sorted) = 0 THEN Undefined ELSE sorted[1]

\* mutant: a length equal to the threshold counts as over it
AtMostStrict(n, threshold) == threshold # NaN /\ n < threshold

\* n <= threshold as JavaScript evaluates it: false when threshold is NaN
AtMost(n, threshold) == threshold # NaN /\ n <= threshold

\* mutant: the threshold test is strict
pickOldestStrictThreshold(stages, threshold) ==
    IF threshold # NaN /\ Len(stages) < threshold
    THEN Null
    ELSE First(ToSorted(stages))

pickOldestStageToDeprecate(stages, threshold) ==
    IF AtMost(Len(stages), threshold)
    THEN Null
    ELSE First(ToSorted(stages))

\* { stage: candidate.stage, versionId: candidate.versionId }
RemovedPair(c) == [stage |-> c.stage, versionId |-> c.versionId]

-----------------------------------------------------------------------------
\* The remote service

Token(pos) == [kind |-> "token", pos |-> pos]

\* the service's answer to a listing call carrying token tok
ServePage(versions, plen, tok) ==
    LET start == IF tok = Undefined THEN 1 ELSE tok.pos
        last  == IF start + plen - 1 < Len(versions)
                 THEN start + plen - 1 ELSE Len(versions)
    IN  [Versions  |-> SubSeq(versions, start, last),
         NextToken |-> IF last < Len(versions) THEN Token(last + 1)
                       ELSE Undefined]

Services == {"paged", "blank", "endless"}

\* the service's answer under each way of ending a listing: "paged" leaves
\* the token out of the last page, "blank" puts an empty-string token on it,
\* "endless" puts a token on every page and serves the last page again
Respond(mode, versions, plen, tok) ==
    LET page  == ServePage(versions, plen, tok)
        start == IF tok = Undefined THEN 1 ELSE tok.pos
    IN  CASE mode = "paged" -> page
          [] mode = "blank" ->
                [page EXCEPT !.NextToken =
                    IF @ = Undefined THEN EmptyToken ELSE @]
          [] mode = "endless" ->
                [page EXCEPT !.NextToken =
                    IF @ = Undefined THEN Token(start) ELSE @]

\* the number of calls after which the model stops following a run
MaxCalls == MaxVersions + 2

\* the number of pages the service splits the versions into
PageCount(versions, plen) ==
    IF Len(versions) = 0 THEN 1 ELSE (Len(versions) + plen - 1) \div plen

\* the service removes one stage label from one version
RemoveStageFromVersion(versions, stage, versionId) ==
    [i \in 1..Len(versions) |->
        IF versions[i].VersionId = versionId
        THEN [versions[i] EXCEPT
                !.VersionStages = SelectSeq(@, LAMBDA s : s # stage)]
        ELSE versions[i]]

VersionEntries(i) ==
    [VersionId : {VersionIds[i]},
     CreatedDate : CreatedDates,
     VersionStages : VersionStageLists]

\* every list of n version entries with distinct ids v1..vn
RemoteStates ==
    UNION {{r \in [1..n -> UNION {VersionEntries(i) : i \in 1..n}] :
              \A i \in 1..n : r[i].VersionId = VersionIds[i]} :
           n \in 0..MaxVersions}

-----------------------------------------------------------------------------
\* Commands handed to client.send

\* mutant: the listing command never carries the token
ListCommandWithoutToken(secretId, tok) ==
    [cmdName |-> "ListSecretVersionIdsCommand",
     SecretId |-> secretId,
     IncludeDeprecated |-> TRUE,
     NextToken |-> Undefined,
     MaxResults |-> MaxResults]

ListSecretVersionIdsCommand(secretId, tok) ==
    [cmdName |-> "ListSecretVersionIdsCommand",
     SecretId |-> secretId,
     IncludeDeprecated |-> TRUE,
     NextToken |-> tok,
     MaxResults |-> MaxResults]

\* mutant: the version id is put where the stage name belongs
UpdateCommandSwapped(secretId, c) ==
    [cmdName |-> "UpdateSecretVersionStageCommand",
     SecretId |-> secretId,
     VersionStage |-> c.versionId,
     RemoveFromVersionId |-> c.stage]

UpdateSecretVersionStageCommand(secretId, c) ==
    [cmdName |-> "UpdateSecretVersionStageCommand",
     SecretId |-> secretId,
     VersionStage |-> c.stage,
     RemoveFromVersionId |-> c.versionId]

\* mutant: the removal is sent twice
SendUpdateTwice(sent, secretId, c) ==
    Append(Append(sent, UpdateSecretVersionStageCommand(secretId, c)),
           UpdateSecretVersionStageCommand(secretId, c))

\* await client.send(new UpdateSecretVersionStageCommand({...})): the call
\* joins those already sent
SendUpdate(sent, secretId, c) ==
    Append(sent, UpdateSecretVersionStageCommand(secretId, c))

IsList(c) == c.cmdName = "ListSecretVersionIdsCommand"

IsUpdate(c) == c.cmdName = "UpdateSecretVersionStageCommand"

ListCalls == SelectSeq(calls, IsList)

UpdateCalls == SelectSeq(calls, IsUpdate)

-----------------------------------------------------------------------------
\* Results and outputs

\* the object trimStagesWithClient returns; removed is undefined when absent
RunResult(trimmed, removed, records, unique) ==
    [kind |-> "returned",
     trimmed |-> trimmed,
     removed |-> removed,
     count |-> Len(records),
     manageableCount |-> Len(unique)]

\* a rejection of trimStagesWithClient with error err
Threw(err) == [kind |-> "threw", error |-> err]

NoOutput == [trimmed |-> "unset", failed |-> ""]

\* core.setOutput("trimmed", String(b))
SetTrimmed(b) == [trimmed |-> IF b THEN "true" ELSE "false", failed |-> ""]

\* core.setFailed(err?.message || String(err))
SetFailed(err) == [trimmed |-> "unset", failed |-> err]

-----------------------------------------------------------------------------
\* Initial states

PageLens == {1, MaxVersions}

\* trimStagesWithClient called with its parameters, no action inputs read
NoInputs == [kind |-> "none"]

\* no second invocation is under way
Idle == [pc |-> "idle"]

RunParams ==
    [secretId : SecretIds,
     threshold : Thresholds,
     excludeStages : ExcludeSets,
     dryRun : BOOLEAN]

Init ==
    /\ entry \in {"action", "legacy"}
    /\ params \in RunParams
    /\ remote \in RemoteStates
    /\ pageLen \in PageLens
    /\ pc = "listing"
    /\ nextToken = Undefined
    /\ labeled = <<>>
    /\ calls = <<>>
    /\ outcomes = <<>>
    /\ uniqueStages = <<>>
    /\ candidate = Pending
    /\ result = Pending
    /\ announced = Undefined
    /\ output = NoOutput
    /\ selStages = <<>>
    /\ selThreshold = 0
    /\ selResult = Pending
    /\ inputs = NoInputs
    /\ service = "paged"
    /\ served = <<>>
    /\ initial = remote
    /\ lastRun = Undefined
    /\ other = Idle

-----------------------------------------------------------------------------
\* The pipeline after the last listing response, up to the next remote call
\* or the end of the run

\* mutant: the dry-run flag is ignored
IsDryRunIgnored(p) == FALSE

\* if (dryRun)
IsDryRun(p) == p.dryRun

\* mutant: the loop ends after the first page
LoopContinuesNever(tok) == FALSE

\* while (nextToken)
LoopContinues(tok) == ~Falsy(tok)

\* trimStagesWithClient from the dedupe loop on, then run()'s setOutput
TrimAfterCollection(records, sent) ==
    \E unique \in {LatestByStage(<<>>, records, params.excludeStages)} :
    \E cand \in {pickOldestStageToDeprecate(unique, params.threshold)} :
        /\ uniqueStages' = unique
        /\ candidate' = cand
        /\ announced' = announced
        /\ IF Falsy(cand)
           THEN /\ result' = RunResult(FALSE, Undefined, records, unique)
                /\ output' = SetTrimmed(FALSE)
                /\ calls' = sent
                /\ pc' = "done"
           ELSE IF IsDryRun(params)
           THEN /\ result' = RunResult(FALSE, RemovedPair(cand), records, unique)
                /\ output' = SetTrimmed(FALSE)
                /\ calls' = sent
                /\ pc' = "done"
           ELSE /\ result' = result
                /\ output' = output
                /\ calls' = SendUpdate(sent, params.secretId, cand)
                /\ pc' = "updating"

\* legacy run() from the filter on
LegacyAfterCollection(records, sent) ==
    \E unique \in {DedupeLatest(<<>>,
                        Manageable(records, params.excludeStages))} :
    \E oldest \in {First(ToSorted(unique))} :
        /\ uniqueStages' = unique
        /\ result' = result
        /\ IF AtMost(Len(unique), params.threshold)
           THEN /\ candidate' = candidate
                /\ announced' = announced
                /\ output' = SetTrimmed(FALSE)
                /\ calls' = sent
                /\ pc' = "done"
           ELSE IF oldest = Undefined
           THEN \* oldest.stage throws a TypeError, caught by run()
                /\ candidate' = oldest
                /\ announced' = announced
                /\ output' = SetFailed("TypeError")
                /\ calls' = sent
                /\ pc' = "done"
           ELSE IF IsDryRun(params)
           THEN /\ candidate' = oldest
                /\ announced' = RemovedPair(oldest)
                /\ output' = SetTrimmed(FALSE)
                /\ calls' = sent
                /\ pc' = "done"
           ELSE /\ candidate' = oldest
                /\ announced' = RemovedPair(oldest)
                /\ output' = output
                /\ calls' = SendUpdate(sent, params.secretId, oldest)
                /\ pc' = "updating"

AfterCollection(records, sent) ==
    IF entry = "action"
    THEN TrimAfterCollection(records, sent)
    ELSE LegacyAfterCollection(records, sent)

\* a remote call failed with err: trimStagesWithClient rejects with it and
\* run() catches it; legacy run() catches it
Fail(err) ==
    /\ result' = IF entry = "action" THEN Threw(err) ELSE result
    /\ output' = SetFailed(err)
    /\ pc' = "done"

-----------------------------------------------------------------------------
\* Actions

\* mutant: the loop gives up after a fixed number of pages and goes on with
\* what was collected
ListPageCapped ==
    /\ pc = "listing"
    /\ Len(calls) < MaxCalls
    /\ LET resp == Respond(service, remote, pageLen, nextToken)
           sent == Append(calls,
                    ListSecretVersionIdsCommand(params.secretId, nextToken))
       IN  /\ LoopContinues(resp.NextToken)
           /\ labeled' = CollectPage(labeled, resp.Versions)
           /\ nextToken' = resp.NextToken
           /\ served' = Append(served, resp.NextToken)
           /\ IF Len(sent) > MaxVersions
              THEN AfterCollection(CollectPage(labeled, resp.Versions), sent)
              ELSE /\ calls' = sent
                   /\ UNCHANGED <<pc, uniqueStages, candidate, result,
                                  announced, output>>
    /\ outcomes' = Append(outcomes, "ok")
    /\ UNCHANGED <<entry, params, remote, pageLen, selVars, envVars>>

\* a listing call answered with a page that carries a continuation token
ListPage ==
    /\ pc = "listing"
    /\ Len(calls) < MaxCalls
    /\ LET resp == Respond(service, remote, pageLen, nextToken)
       IN  /\ LoopContinues(resp.NextToken)
           /\ calls' = Append(calls,
                    ListSecretVersionIdsCommand(params.secretId, nextToken))
           /\ labeled' = CollectPage(labeled, resp.Versions)
           /\ nextToken' = resp.NextToken
           /\ served' = Append(served, resp.NextToken)
    /\ outcomes' = Append(outcomes, "ok")
    /\ UNCHANGED <<entry, params, remote, pageLen, pc, uniqueStages, candidate,
                   result, announced, output, selVars, envVars>>

\* a listing call answered with a page without token: the loop ends and the
\* pipeline runs on to the mutation call or to the end
ListLastPage ==
    /\ pc = "listing"
    /\ \E resp \in {Respond(service, remote, pageLen, nextToken)} :
       \E records \in {CollectPage(labeled, resp.Versions)} :
           /\ ~LoopContinues(resp.NextToken)
           /\ labeled' = records
           /\ nextToken' = resp.NextToken
           /\ served' = Append(served, resp.NextToken)
           /\ AfterCollection(records,
                    Append(calls,
                        ListSecretVersionIdsCommand(params.secretId, nextToken)))
    /\ outcomes' = Append(outcomes, "ok")
    /\ UNCHANGED <<entry, params, remote, pageLen, selVars, envVars>>

\* mutant: a failing listing call ends the loop and the pipeline goes on
\* with what was collected
ListFailsPartial ==
    /\ pc = "listing"
    /\ outcomes' = Append(outcomes, "error")
    /\ AfterCollection(labeled,
            Append(calls,
                ListSecretVersionIdsCommand(params.secretId, nextToken)))
    /\ UNCHANGED <<entry, params, remote, pageLen, nextToken, labeled, served,
                   selVars, envVars>>

\* a listing call fails
ListFails ==
    /\ pc = "listing"
    /\ calls' = Append(calls,
            ListSecretVersionIdsCommand(params.secretId, nextToken))
    /\ outcomes' = Append(outcomes, "error")
    /\ Fail(ListError)
    /\ UNCHANGED <<entry, params, remote, pageLen, nextToken, labeled, served,
                   uniqueStages, candidate, announced, selVars, envVars>>

\* the mutation call succeeds
UpdateSucceeds ==
    /\ pc = "updating"
    /\ remote' = RemoveStageFromVersion(remote, candidate.stage,
                                        candidate.versionId)
    /\ result' = IF entry = "action"
                 THEN RunResult(TRUE, RemovedPair(candidate), labeled,
                                uniqueStages)
                 ELSE result
    /\ output' = SetTrimmed(TRUE)
    /\ outcomes' = Append(outcomes, "ok")
    /\ pc' = "done"
    /\ UNCHANGED <<entry, params, pageLen, nextToken, labeled, calls, served,
                   uniqueStages, candidate, announced, selVars, envVars>>

\* mutant: a failing mutation call is swallowed and reported as not trimmed
UpdateFailsSwallowed ==
    /\ pc = "updating"
    /\ outcomes' = Append(outcomes, "error")
    /\ result' = IF entry = "action"
                 THEN RunResult(FALSE, RemovedPair(candidate), labeled,
                                uniqueStages)
                 ELSE result
    /\ output' = SetTrimmed(FALSE)
    /\ pc' = "done"
    /\ UNCHANGED <<entry, params, remote, pageLen, nextToken, labeled, calls,
                   served, uniqueStages, candidate, announced, selVars,
                   envVars>>

\* the mutation call fails
UpdateFails ==
    /\ pc = "updating"
    /\ outcomes' = Append(outcomes, "error")
    /\ Fail(UpdateError)
    /\ UNCHANGED <<entry, params, remote, pageLen, nextToken, labeled, calls,
                   served, uniqueStages, candidate, announced, selVars,
                   envVars>>

Next ==
    \/ ListPage
    \/ ListLastPage
    \/ ListFails
    \/ UpdateSucceeds
    \/ UpdateFails

Spec == Init /\ [][Next]_vars

-----------------------------------------------------------------------------
\* run(): reading the action inputs, then the pipeline

\* core.getInput of an input that was not supplied
NotSupplied == ""

\* the error core.getInput throws for a required input that is not supplied
InputRequired == "Input required and not supplied"

\* the exclude-stages input as its comma-separated pieces; no pieces is the
\* empty string
ExcludeInputs == {<<>>, <<"a">>, <<"AWSCURRENT", " b", " ">>}

RawInputs ==
    [secretId : {NotSupplied, "my/secret"},
     region : {NotSupplied, "eu-west-1"},
     threshold : {NotSupplied, "abc", "1"},
     dryRun : {NotSupplied, "TRUE"},
     excludeStages : ExcludeInputs]

\* raw || fallback
OrElse(raw, fallback) == IF raw = NotSupplied THEN fallback ELSE raw

\* raw || fallback, for the exclude-stages text held as its pieces
OrElsePieces(raw, fallback) == IF raw = <<>> THEN fallback ELSE raw

\* parseInt(text, 10) on the texts the inputs are drawn from
ParseInt(text) ==
    CASE text = "18" -> 18
      [] text = "1" -> 1
      [] OTHER -> NaN

\* text.toLowerCase()
ToLowerCase(text) == IF text = "TRUE" THEN "true" ELSE text

\* piece.trim()
Trim(piece) ==
    CASE piece = " b" -> "b"
      [] piece = " " -> ""
      [] OTHER -> piece

\* raw.split(","): the empty string splits into one empty piece
SplitComma(raw) == IF raw = <<>> THEN <<"">> ELSE raw

\* new Set(raw.split(",").map(s => s.trim()).filter(Boolean))
ParseExcludeStages(raw) ==
    LET pieces == SplitComma(raw)
    IN  {Trim(pieces[i]) : i \in 1..Len(pieces)} \ {""}

\* what exclude-stages falls back to when it is not supplied
ExcludeFallback(e) ==
    IF e = "action"
    THEN <<"AWSCURRENT", "AWSPREVIOUS", "AWSPENDING">>
    ELSE <<>>

\* the parameters run() derives from the inputs
ParseInputs(e, in) ==
    [secretId |-> in.secretId,
     threshold |-> ParseInt(OrElse(in.threshold, "18")),
     dryRun |-> ToLowerCase(OrElse(in.dryRun, "false")) = "true",
     excludeStages |->
         ParseExcludeStages(
             OrElsePieces(in.excludeStages, ExcludeFallback(e)))]

RunInit ==
    /\ entry \in {"action", "legacy"}
    /\ inputs \in RawInputs
    /\ params = Pending
    /\ remote \in RemoteStates
    /\ pageLen = 1
    /\ pc = "entry"
    /\ nextToken = Undefined
    /\ labeled = <<>>
    /\ calls = <<>>
    /\ outcomes = <<>>
    /\ uniqueStages = <<>>
    /\ candidate = Pending
    /\ result = Pending
    /\ announced = Undefined
    /\ output = NoOutput
    /\ selStages = <<>>
    /\ selThreshold = 0
    /\ selResult = Pending
    /\ service = "paged"
    /\ served = <<>>
    /\ initial = remote
    /\ lastRun = Undefined
    /\ other = Idle

\* run() reads its inputs: a required input that is not supplied makes
\* core.getInput throw, which run() catches
ReadInputs ==
    /\ pc = "entry"
    /\ IF inputs.secretId = NotSupplied \/ inputs.region = NotSupplied
       THEN /\ output' = SetFailed(InputRequired)
            /\ pc' = "done"
            /\ params' = params
       ELSE /\ output' = output
            /\ pc' = "listing"
            /\ params' = ParseInputs(entry, inputs)
    /\ UNCHANGED <<entry, remote, pageLen, nextToken, labeled, calls, outcomes,
                   served, uniqueStages, candidate, result, announced, selVars,
                   envVars>>

RunNext ==
    \/ ReadInputs
    \/ Next

RunSpec == RunInit /\ [][RunNext]_vars

-----------------------------------------------------------------------------
\* Invoking the pipeline again on the same secret

\* what an invocation leaves behind for the comparison with the next one
RunSummary ==
    [trimmed |-> pc = "done" /\ outcomes # <<>>
                     /\ IsUpdate(calls[Len(calls)])
                     /\ outcomes[Len(outcomes)] = "ok",
     removed |-> IF candidate \in {Pending, Null, Undefined}
                 THEN Undefined ELSE RemovedPair(candidate),
     manageableCount |-> Len(uniqueStages),
     labeled |-> labeled]

\* the locals every invocation starts from
FreshLocals ==
    /\ pc' = "listing"
    /\ nextToken' = Undefined
    /\ calls' = <<>>
    /\ outcomes' = <<>>
    /\ served' = <<>>
    /\ uniqueStages' = <<>>
    /\ candidate' = Pending
    /\ result' = Pending
    /\ announced' = Undefined
    /\ output' = NoOutput

\* mutant: the records collected by the previous invocation are kept
ReinvokeStale ==
    /\ pc = "done"
    /\ lastRun' = RunSummary
    /\ FreshLocals
    /\ UNCHANGED <<entry, params, remote, pageLen, labeled, inputs, service,
                   initial, other, selVars>>

\* the finished pipeline is invoked again with the same parameters
Reinvoke ==
    /\ pc = "done"
    /\ lastRun' = RunSummary
    /\ FreshLocals
    /\ labeled' = <<>>
    /\ UNCHANGED <<entry, params, remote, pageLen, inputs, service, initial,
                   other, selVars>>

RepeatParams ==
    [secretId : SecretIds,
     threshold : Thresholds,
     excludeStages : {DefaultExcludeStages, {}},
     dryRun : {FALSE}]

RepeatInit ==
    /\ entry \in {"action", "legacy"}
    /\ params \in RepeatParams
    /\ remote \in RemoteStates
    /\ pageLen = 1
    /\ pc = "listing"
    /\ nextToken = Undefined
    /\ labeled = <<>>
    /\ calls = <<>>
    /\ outcomes = <<>>
    /\ uniqueStages = <<>>
    /\ candidate = Pending
    /\ result = Pending
    /\ announced = Undefined
    /\ output = NoOutput
    /\ selStages = <<>>
    /\ selThreshold = 0
    /\ selResult = Pending
    /\ inputs = NoInputs
    /\ service = "paged"
    /\ served = <<>>
    /\ initial = remote
    /\ lastRun = Undefined
    /\ other = Idle

\* the second invocation of two
SecondInvocation == lastRun = Undefined /\ Reinvoke

RepeatNext ==
    \/ Next
    \/ SecondInvocation

RepeatSpec == RepeatInit /\ [][RepeatNext]_vars

-----------------------------------------------------------------------------
\* One invocation against a service that ends its listing in any of the
\* three ways; every remote call returns or fails, and the synchronous code
\* after it runs to its end

TokenParams ==
    [secretId : SecretIds,
     threshold : {0},
     excludeStages : {DefaultExcludeStages},
     dryRun : {FALSE}]

TokenInit ==
    /\ entry \in {"action", "legacy"}
    /\ params \in TokenParams
    /\ remote \in RemoteStates
    /\ pageLen = 1
    /\ pc = "listing"
    /\ nextToken = Undefined
    /\ labeled = <<>>
    /\ calls = <<>>
    /\ outcomes = <<>>
    /\ uniqueStages = <<>>
    /\ candidate = Pending
    /\ result = Pending
    /\ announced = Undefined
    /\ output = NoOutput
    /\ selStages = <<>>
    /\ selThreshold = 0
    /\ selResult = Pending
    /\ inputs = NoInputs
    /\ service \in Services
    /\ served = <<>>
    /\ initial = remote
    /\ lastRun = Undefined
    /\ other = Idle

TokenSpec == TokenInit /\ [][Next]_vars /\ WF_vars(Next)

-----------------------------------------------------------------------------
\* Invoking the pipeline over and over, without dry-run, without failures and
\* without another writer; every remote call returns

ConvergeParams ==
    [secretId : SecretIds,
     threshold : 0..MaxThreshold,
     excludeStages : {DefaultExcludeStages},
     dryRun : {FALSE}]

ConvergeInit ==
    /\ entry \in {"action", "legacy"}
    /\ params \in ConvergeParams
    /\ remote \in RemoteStates
    /\ pageLen = MaxVersions
    /\ pc = "listing"
    /\ nextToken = Undefined
    /\ labeled = <<>>
    /\ calls = <<>>
    /\ outcomes = <<>>
    /\ uniqueStages = <<>>
    /\ candidate = Pending
    /\ result = Pending
    /\ announced = Undefined
    /\ output = NoOutput
    /\ selStages = <<>>
    /\ selThreshold = 0
    /\ selResult = Pending
    /\ inputs = NoInputs
    /\ service = "paged"
    /\ served = <<>>
    /\ initial = remote
    /\ lastRun = Undefined
    /\ other = Idle

\* the service puts all versions on one page
ConvergeNext ==
    \/ ListLastPage
    \/ UpdateSucceeds
    \/ Reinvoke

ConvergeSpec ==
    ConvergeInit /\ [][ConvergeNext]_vars /\ WF_vars(ConvergeNext)

-----------------------------------------------------------------------------
\* Two invocations against the same secret at the same time: the second one
\* keeps its locals in other and takes its steps between those of the first

\* mutant: the record with the latest createdDate is selected
DecisionNewest(e, records, p) ==
    LET unique == LatestByStage(<<>>, records, p.excludeStages)
        sorted == ToSorted(unique)
    IN  IF AtMost(Len(unique), p.threshold) \/ Len(unique) = 0
        THEN Null
        ELSE sorted[Len(sorted)]

\* what an invocation selects from the records it collected: candidate in
\* trimStagesWithClient, oldest in the legacy run(), Null below the threshold
Decision(e, records, p) ==
    IF e = "action"
    THEN pickOldestStageToDeprecate(
             LatestByStage(<<>>, records, p.excludeStages), p.threshold)
    ELSE LET unique == DedupeLatest(<<>>,
                           Manageable(records, p.excludeStages))
         IN  IF AtMost(Len(unique), p.threshold)
             THEN Null
             ELSE First(ToSorted(unique))

OtherStart ==
    [pc |-> "listing", nextToken |-> Undefined, labeled |-> <<>>,
     candidate |-> Pending]

\* the second invocation gets a page that carries a continuation token
OtherListPage ==
    /\ other.pc = "listing"
    /\ \E resp \in {Respond(service, remote, pageLen, other.nextToken)} :
          /\ LoopContinues(resp.NextToken)
          /\ other' = [other EXCEPT
                          !.labeled = CollectPage(@, resp.Versions),
                          !.nextToken = resp.NextToken]
    /\ UNCHANGED <<entry, pipeVars, selVars, inputs, service, initial,
                   lastRun>>

\* the second invocation gets its last page, selects, and issues its
\* mutation call or ends
OtherListLastPage ==
    /\ other.pc = "listing"
    /\ \E resp \in {Respond(service, remote, pageLen, other.nextToken)} :
       \E records \in {CollectPage(other.labeled, resp.Versions)} :
       \E cand \in {Decision(entry, records, params)} :
          /\ ~LoopContinues(resp.NextToken)
          /\ other' = [pc |-> IF Falsy(cand) \/ IsDryRun(params)
                               THEN "done" ELSE "updating",
                       nextToken |-> resp.NextToken,
                       labeled |-> records,
                       candidate |-> cand]
    /\ UNCHANGED <<entry, pipeVars, selVars, inputs, service, initial,
                   lastRun>>

\* the second invocation's mutation call succeeds
OtherUpdateSucceeds ==
    /\ other.pc = "updating"
    /\ remote' = RemoveStageFromVersion(remote, other.candidate.stage,
                                        other.candidate.versionId)
    /\ other' = [other EXCEPT !.pc = "done"]
    /\ UNCHANGED <<entry, params, pageLen, pc, nextToken, labeled, calls,
                   outcomes, served, uniqueStages, candidate, result,
                   announced, output, selVars, inputs, service, initial,
                   lastRun>>

\* the second invocation's mutation call fails
OtherUpdateFails ==
    /\ other.pc = "updating"
    /\ other' = [other EXCEPT !.pc = "done"]
    /\ UNCHANGED <<entry, pipeVars, selVars, inputs, service, initial,
                   lastRun>>

OverlapParams ==
    [secretId : SecretIds,
     threshold : 0..MaxThreshold,
     excludeStages : {DefaultExcludeStages},
     dryRun : {FALSE}]

OverlapInit ==
    /\ entry \in {"action", "legacy"}
    /\ params \in OverlapParams
    /\ remote \in RemoteStates
    /\ pageLen = 1
    /\ pc = "listing"
    /\ nextToken = Undefined
    /\ labeled = <<>>
    /\ calls = <<>>
    /\ outcomes = <<>>
    /\ uniqueStages = <<>>
    /\ candidate = Pending
    /\ result = Pending
    /\ announced = Undefined
    /\ output = NoOutput
    /\ selStages = <<>>
    /\ selThreshold = 0
    /\ selResult = Pending
    /\ inputs = NoInputs
    /\ service = "paged"
    /\ served = <<>>
    /\ initial = remote
    /\ lastRun = Undefined
    /\ other = OtherStart

OverlapNext ==
    \/ ListPage
    \/ ListLastPage
    \/ UpdateSucceeds
    \/ UpdateFails
    \/ OtherListPage
    \/ OtherListLastPage
    \/ OtherUpdateSucceeds
    \/ OtherUpdateFails

OverlapSpec == OverlapInit /\ [][OverlapNext]_vars

-----------------------------------------------------------------------------
\* The selector on its own: pickOldestStageToDeprecate applied to any list

SelRecords(i) ==
    [stage : CustomStages,
     versionId : {VersionIds[i]},
     createdDate : 0..(MaxSelLen - 1)]

SelInputs ==
    UNION {{r \in [1..n -> UNION {SelRecords(i) : i \in 1..n}] :
              \A i \in 1..n : r[i].versionId = VersionIds[i]} :
           n \in 0..MaxSelLen}

SelInit ==
    /\ entry = "selector"
    /\ params = [secretId |-> "my/secret", threshold |-> 0,
                 excludeStages |-> {}, dryRun |-> FALSE]
    /\ remote = <<>>
    /\ pageLen = 1
    /\ pc = "idle"
    /\ nextToken = Undefined
    /\ labeled = <<>>
    /\ calls = <<>>
    /\ outcomes = <<>>
    /\ uniqueStages = <<>>
    /\ candidate = Pending
    /\ result = Pending
    /\ announced = Undefined
    /\ output = NoOutput
    /\ selStages \in SelInputs
    /\ selThreshold \in Thresholds
    /\ selResult = Pending
    /\ inputs = NoInputs
    /\ service = "paged"
    /\ served = <<>>
    /\ initial = remote
    /\ lastRun = Undefined
    /\ other = Idle

SelApply ==
    /\ entry = "selector"
    /\ selResult = Pending
    /\ selResult' = pickOldestStageToDeprecate(selStages, selThreshold)
    /\ UNCHANGED <<entry, pipeVars, selStages, selThreshold, envVars>>

SelNext == SelApply

SelSpec == SelInit /\ [][SelNext]_vars

-----------------------------------------------------------------------------
\* Vocabulary of the properties

\* a label record was selected
HasCandidate == candidate \notin {Pending, Null, Undefined}

\* some listing call was answered with an error
ListFailed ==
    \E i \in 1..Len(outcomes) : IsList(calls[i]) /\ outcomes[i] = "error"

\* the mutation call was answered with an error
UpdateFailed ==
    \E i \in 1..Len(outcomes) : IsUpdate(calls[i]) /\ outcomes[i] = "error"

\* the number of mutation calls the service carried out
SucceededUpdates ==
    Cardinality({i \in 1..Len(outcomes) :
                    IsUpdate(calls[i]) /\ outcomes[i] = "ok"})

\* the listing loop has ended normally
Collected == pc \in {"updating", "done"} /\ ~ListFailed

\* the labels the service holds, over all versions
RECURSIVE TotalLabels(_)
TotalLabels(versions) ==
    IF versions = <<>> THEN 0
    ELSE Len(Head(versions).VersionStages) + TotalLabels(Tail(versions))

\* the distinct stage names collected that are not excluded
ManageableNames ==
    {labeled[i].stage : i \in 1..Len(labeled)} \ params.excludeStages

ManageableCount == Cardinality(ManageableNames)

Pair(c) == [stage |-> c.stage, versionId |-> c.versionId]

-----------------------------------------------------------------------------
\* C1: in every run (any pages, threshold, exclusion set, dry-run flag and
\* failure) at most one mutation call is issued, and a run that has ended
\* either changed nothing on the service or removed exactly one label.
C1_AtMostOneMutation ==
    /\ Len(UpdateCalls) <= 1
    /\ SucceededUpdates <= Len(UpdateCalls)
    /\ Collected =>
          TotalLabels(remote) = Len(labeled) - SucceededUpdates
    /\ pc = "done" => SucceededUpdates \in {0, 1}

\* a run that ended after its one mutation call succeeded
C1_Witness ==
    /\ pc = "done"
    /\ Len(UpdateCalls) = 1
    /\ SucceededUpdates = 1
    /\ TotalLabels(remote) = Len(labeled) - 1

\* C2: whenever a candidate exists and dry-run is off, exactly one mutation
\* call is issued, with the run's secretId and the candidate's stage and
\* versionId; once it succeeds the result reports trimmed = true with
\* removed equal to that pair, and no result reports trimmed = false.
C2_SuccessfulTrim ==
    (HasCandidate /\ ~params.dryRun) =>
        /\ Len(UpdateCalls) = 1
        /\ UpdateCalls[1] =
              [cmdName |-> "UpdateSecretVersionStageCommand",
               SecretId |-> params.secretId,
               VersionStage |-> candidate.stage,
               RemoveFromVersionId |-> candidate.versionId]
        /\ SucceededUpdates = 1 =>
              /\ pc = "done"
              /\ output = [trimmed |-> "true", failed |-> ""]
              /\ entry = "action" =>
                    /\ result.kind = "returned"
                    /\ result.trimmed = TRUE
                    /\ result.removed = Pair(candidate)
              /\ entry = "legacy" => announced = Pair(candidate)
        /\ result.kind = "returned" => result.trimmed = TRUE
        /\ output.trimmed # "false"

\* a trim that succeeded through trimStagesWithClient
C2_Witness ==
    /\ HasCandidate
    /\ ~params.dryRun
    /\ entry = "action"
    /\ pc = "done"
    /\ SucceededUpdates = 1
    /\ result.kind = "returned"
    /\ result.trimmed = TRUE

\* C3: no record whose stage is in the exclusion set is in uniqueStages,
\* counts toward the threshold comparison, or is named in a mutation call,
\* in the result's removed field or in the legacy announcement, whatever its
\* timestamp and however many excluded labels there are.
C3_ExclusionAbsolute ==
    /\ \A i \in 1..Len(uniqueStages) :
          uniqueStages[i].stage \notin params.excludeStages
    /\ \A i \in 1..Len(calls) :
          IsUpdate(calls[i]) => calls[i].VersionStage \notin params.excludeStages
    /\ HasCandidate => candidate.stage \notin params.excludeStages
    /\ (result.kind = "returned" /\ result.removed # Undefined) =>
          result.removed.stage \notin params.excludeStages
    /\ announced # Undefined => announced.stage \notin params.excludeStages
    /\ Collected => Len(uniqueStages) = ManageableCount
    /\ (Collected /\ result.kind = "returned") =>
          result.manageableCount = ManageableCount
    /\ (Collected /\ ManageableCount <= params.threshold) => ~HasCandidate

\* a label was removed although an excluded label is strictly older, and the
\* excluded labels alone would have exceeded the threshold
C3_Witness ==
    /\ pc = "done"
    /\ SucceededUpdates = 1
    /\ \E i \in 1..Len(labeled) :
          /\ labeled[i].stage \in params.excludeStages
          /\ labeled[i].createdDate < candidate.createdDate
    /\ Cardinality({labeled[i].stage : i \in 1..Len(labeled)}
                       \cap params.excludeStages) > params.threshold
    /\ params.threshold >= 0

-----------------------------------------------------------------------------
\* Properties of the selector (checked under SelSpec)

\* pickOldestStageToDeprecate has returned
Applied == selResult # Pending

\* r is the record of stages with the minimum createdDate, the earliest in
\* input order among those that share it
IsFirstMinimum(stages, r) ==
    \E i \in 1..Len(stages) :
        /\ stages[i] = r
        /\ \A j \in 1..Len(stages) :
              stages[j].createdDate >= stages[i].createdDate
        /\ \A j \in 1..(i - 1) :
              stages[j].createdDate > stages[i].createdDate

\* C4 as stated: for every stage list and threshold with
\* len(stages) > threshold the selector returns the record with the minimum
\* createdDate, the earliest in input order among equal minima.
C4_AsStated ==
    (Applied /\ Len(selStages) > selThreshold) =>
        IsFirstMinimum(selStages, selResult)

\* C4 amended: for every non-empty stage list and threshold with
\* len(stages) > threshold the selector returns the record with the minimum
\* createdDate, the earliest in input order among equal minima.
C4_OldestFirst ==
    (Applied /\ Len(selStages) > selThreshold /\ Len(selStages) > 0) =>
        IsFirstMinimum(selStages, selResult)

\* three records over the threshold, the minimum shared by the second and
\* the third: the second is returned
C4_Witness ==
    /\ Applied
    /\ Len(selStages) = 3
    /\ Len(selStages) > selThreshold
    /\ selStages[1].createdDate > selStages[2].createdDate
    /\ selStages[3].createdDate = selStages[2].createdDate
    /\ selResult = selStages[2]

\* C5: for every stage list and non-negative threshold with
\* len(stages) <= threshold the selector returns null (no candidate, and
\* no error).
C5_UnderThresholdNull ==
    (Applied /\ selThreshold >= 0 /\ Len(selStages) <= selThreshold) =>
        selResult = Null

\* a list exactly as long as the threshold, and null returned
C5_Witness ==
    /\ Applied
    /\ Len(selStages) = 2
    /\ selThreshold = 2
    /\ selResult = Null

-----------------------------------------------------------------------------
\* Properties of the pipeline (checked under Spec)

\* C6: whenever the number of manageable stages collected is at most the
\* threshold, no candidate is produced, no mutation call is issued and
\* trimmed = false is reported; a candidate is produced only when that
\* number is strictly greater than the threshold.
C6_ThresholdGuard ==
    /\ (Collected /\ ManageableCount <= params.threshold) =>
          /\ ~HasCandidate
          /\ UpdateCalls = <<>>
          /\ pc = "done"
          /\ output = [trimmed |-> "false", failed |-> ""]
          /\ entry = "action" =>
                /\ result.kind = "returned"
                /\ result.trimmed = FALSE
                /\ result.removed = Undefined
    /\ HasCandidate => ManageableCount > params.threshold

\* exactly as many manageable stages as the threshold allows, among more
\* labels than that, and the run ended without trimming
C6_Witness ==
    /\ Collected
    /\ params.threshold >= 1
    /\ ManageableCount = params.threshold
    /\ Len(labeled) > params.threshold
    /\ pc = "done"
    /\ output.trimmed = "false"

\* C7: whenever dry-run is on and a candidate is selected, no mutation call
\* is issued, the result reports trimmed = false and still names the
\* candidate's {stage, versionId} (the legacy entry point reports
\* trimmed = false and names the pair in its announcement).
C7_DryRun ==
    (HasCandidate /\ params.dryRun) =>
        /\ UpdateCalls = <<>>
        /\ pc = "done"
        /\ TotalLabels(remote) = Len(labeled)
        /\ output = [trimmed |-> "false", failed |-> ""]
        /\ entry = "action" =>
              /\ result.kind = "returned"
              /\ result.trimmed = FALSE
              /\ result.removed = Pair(candidate)
        /\ entry = "legacy" => announced = Pair(candidate)

\* a dry run that selected a candidate and reported it
C7_Witness ==
    /\ HasCandidate
    /\ params.dryRun
    /\ entry = "action"
    /\ pc = "done"
    /\ result.kind = "returned"
    /\ result.removed = Pair(candidate)
    /\ calls # <<>>

\* every label the service holds was collected, and nothing else
AllLabelsCollected ==
    /\ Len(labeled) = TotalLabels(remote)
    /\ \A i \in 1..Len(remote) :
          \A k \in 1..Len(remote[i].VersionStages) :
              \E j \in 1..Len(labeled) :
                  /\ labeled[j].stage = remote[i].VersionStages[k]
                  /\ labeled[j].versionId = remote[i].VersionId

\* C8: with N pages, each but the last carrying a token, exactly N listing
\* calls are issued, and the labels of all versions on all pages are
\* collected before the threshold comparison and before any mutation call:
\* no mutation call precedes a listing call.
C8_Pagination ==
    /\ Len(ListCalls) <= PageCount(remote, pageLen)
    /\ Collected =>
          /\ Len(ListCalls) = PageCount(remote, pageLen)
          /\ SucceededUpdates = 0 => AllLabelsCollected
    /\ (candidate # Pending \/ UpdateCalls # <<>> \/ result.kind = "returned") =>
          /\ Collected
          /\ Len(ListCalls) = PageCount(remote, pageLen)
    /\ \A i \in 1..Len(calls) : \A j \in 1..Len(calls) :
          (IsUpdate(calls[i]) /\ IsList(calls[j])) => j < i

\* two pages were listed, then the mutation call was issued
C8_Witness ==
    /\ PageCount(remote, pageLen) = 2
    /\ Len(calls) = 3
    /\ IsList(calls[1])
    /\ IsList(calls[2])
    /\ IsUpdate(calls[3])
    /\ pc = "updating"
    /\ AllLabelsCollected

\* C9: when the mutation call fails, the error reaches the caller of
\* trimStagesWithClient unmodified, no further remote call is made, no
\* result with trimmed = true (or any result) is produced, and the run
\* wrapper reports failure and sets no trimmed output.
C9_MutationFailure ==
    UpdateFailed =>
        /\ pc = "done"
        /\ Len(UpdateCalls) = 1
        /\ IsUpdate(calls[Len(calls)])
        /\ Len(outcomes) = Len(calls)
        /\ SucceededUpdates = 0
        /\ TotalLabels(remote) = Len(labeled)
        /\ result.kind # "returned"
        /\ entry = "action" => result = [kind |-> "threw", error |-> UpdateError]
        /\ output = [trimmed |-> "unset", failed |-> UpdateError]

\* the mutation call failed under trimStagesWithClient
C9_Witness ==
    /\ UpdateFailed
    /\ entry = "action"
    /\ ~params.dryRun
    /\ HasCandidate
    /\ result.kind = "threw"

\* C10: if a listing call fails, on the first page or a later one, the run
\* aborts with that error, no further listing call and no mutation call is
\* issued, and nothing is reported as trimmed.
C10_CollectionFailure ==
    ListFailed =>
        /\ pc = "done"
        /\ Len(outcomes) = Len(calls)
        /\ IsList(calls[Len(calls)])
        /\ outcomes[Len(outcomes)] = "error"
        /\ \A i \in 1..(Len(outcomes) - 1) : outcomes[i] = "ok"
        /\ UpdateCalls = <<>>
        /\ candidate = Pending
        /\ result.kind # "returned"
        /\ entry = "action" => result = [kind |-> "threw", error |-> ListError]
        /\ output = [trimmed |-> "unset", failed |-> ListError]

\* the second listing call failed after the first page brought labels that
\* exceed the threshold
C10_Witness ==
    /\ ListFailed
    /\ Len(ListCalls) = 2
    /\ ManageableCount > params.threshold
    /\ ~params.dryRun
    /\ pc = "done"

-----------------------------------------------------------------------------
\* Deduplication (checked under Spec)

\* the position in labeled of the first record carrying stage s
FirstSeen(s) ==
    CHOOSE j \in 1..Len(labeled) :
        /\ labeled[j].stage = s
        /\ \A k \in 1..(j - 1) : labeled[k].stage # s

\* u is the collected record of its stage with the latest createdDate, the
\* first seen among those that share it
IsFirstLatest(u) ==
    \E j \in 1..Len(labeled) :
        /\ labeled[j] = u
        /\ \A k \in 1..Len(labeled) :
              labeled[k].stage = u.stage =>
                  labeled[k].createdDate <= u.createdDate
        /\ \A k \in 1..(j - 1) :
              labeled[k].stage = u.stage =>
                  labeled[k].createdDate < u.createdDate

\* u is the collected record of its stage with the latest createdDate, the
\* last seen among those that share it
IsLastLatest(u) ==
    \E j \in 1..Len(labeled) :
        /\ labeled[j] = u
        /\ \A k \in 1..Len(labeled) :
              labeled[k].stage = u.stage =>
                  labeled[k].createdDate <= u.createdDate
        /\ \A k \in (j + 1)..Len(labeled) :
              labeled[k].stage = u.stage =>
                  labeled[k].createdDate < u.createdDate

\* C11: when a non-excluded stage is on several versions, uniqueStages holds
\* exactly one record for it, one with the latest createdDate; a stored
\* record is replaced only by a record whose createdDate is strictly later;
\* and uniqueStages is in first-seen-per-stage order.
C11_Deduplication ==
    Collected =>
        /\ \A s \in ManageableNames :
              Cardinality({i \in 1..Len(uniqueStages) :
                              uniqueStages[i].stage = s}) = 1
        /\ \A i \in 1..Len(uniqueStages) :
              /\ uniqueStages[i].stage \in ManageableNames
              /\ IsFirstLatest(uniqueStages[i])
        /\ \A i \in 1..Len(uniqueStages) : \A k \in 1..Len(uniqueStages) :
              i < k => FirstSeen(uniqueStages[i].stage)
                          < FirstSeen(uniqueStages[k].stage)

\* a stage seen on two versions, the later-seen one newer, kept in the
\* position of the first, ahead of a second stage
C11_Witness ==
    /\ Collected
    /\ Len(uniqueStages) = 2
    /\ \E i \in 1..Len(labeled) : \E j \in 1..Len(labeled) :
          /\ i < j
          /\ labeled[i].stage = labeled[j].stage
          /\ labeled[i].createdDate < labeled[j].createdDate
          /\ uniqueStages[1] = labeled[j]
          /\ FirstSeen(uniqueStages[2].stage) > i

\* C12 as stated: when a stage is on several versions with equal
\* createdDate, the record in uniqueStages (and the versionId of a removal)
\* is the one seen last in the scan.
C12_AsStated ==
    Collected =>
        /\ \A i \in 1..Len(uniqueStages) : IsLastLatest(uniqueStages[i])
        /\ HasCandidate => IsLastLatest(candidate)

\* C12 amended: when a stage is on several versions with equal createdDate,
\* the record in uniqueStages (and the versionId of a removal) is the one
\* seen first in the scan.
C12_TieFirstSeen ==
    Collected =>
        /\ \A i \in 1..Len(uniqueStages) : IsFirstLatest(uniqueStages[i])
        /\ HasCandidate => IsFirstLatest(candidate)
        /\ \A c \in 1..Len(calls) :
              IsUpdate(calls[c]) =>
                  IsFirstLatest([stage |-> calls[c].VersionStage,
                                 versionId |-> calls[c].RemoveFromVersionId,
                                 createdDate |-> candidate.createdDate])

\* a stage on two versions of equal createdDate was removed from the
\* version seen first
C12_Witness ==
    /\ pc = "done"
    /\ SucceededUpdates = 1
    /\ \E i \in 1..Len(labeled) : \E j \in 1..Len(labeled) :
          /\ i < j
          /\ labeled[i].stage = labeled[j].stage
          /\ labeled[i].createdDate = labeled[j].createdDate
          /\ candidate = labeled[i]
          /\ calls[Len(calls)].RemoveFromVersionId = labeled[i].versionId

-----------------------------------------------------------------------------
\* Defaults and configuration errors (checked under RunSpec)

\* run() got past its inputs and derived the parameters
InputsRead == pc # "entry" /\ params # Pending

\* C13 as stated: when no exclusion list is supplied, the exclusion set is
\* exactly {AWSCURRENT, AWSPREVIOUS, AWSPENDING} and the run never removes
\* one of those three labels, in every entry point.
C13_AsStated ==
    (InputsRead /\ inputs.excludeStages = <<>>) =>
        /\ params.excludeStages = DefaultExcludeStages
        /\ \A c \in 1..Len(calls) :
              IsUpdate(calls[c]) =>
                  calls[c].VersionStage \notin DefaultExcludeStages

\* the run of src/index.js without exclude-stages that removed AWSCURRENT
C13_Witness ==
    /\ entry = "legacy"
    /\ inputs.excludeStages = <<>>
    /\ pc = "done"
    /\ SucceededUpdates = 1
    /\ calls[Len(calls)].VersionStage = "AWSCURRENT"

\* the inputs are invalid or missing: no secret id, no region, or a
\* threshold that is no integer
InvalidInputs ==
    \/ inputs.secretId = NotSupplied
    \/ inputs.region = NotSupplied
    \/ ParseInt(OrElse(inputs.threshold, "18")) = NaN

\* C14 as stated: a run whose inputs are invalid or missing fails at entry:
\* it is reported as failed and it issues no listing call and no mutation
\* call.
C14_AsStated ==
    InvalidInputs =>
        /\ calls = <<>>
        /\ pc \in {"entry", "done"}
        /\ pc = "done" => output.failed # ""

\* the run with threshold "abc" that listed the versions and removed a label
C14_Witness ==
    /\ inputs.threshold = "abc"
    /\ pc = "done"
    /\ Len(ListCalls) >= 1
    /\ SucceededUpdates = 1
    /\ output = SetTrimmed(TRUE)
    /\ Len(uniqueStages) = 1

-----------------------------------------------------------------------------
\* Missing creation timestamps (checked under Spec)

\* the version with this id has no CreatedDate
TimestampLess(versionId) ==
    \E i \in 1..Len(remote) :
        /\ remote[i].VersionId = versionId
        /\ remote[i].CreatedDate = <<>>

\* every CreatedDate that is present is later than the epoch
PresentDatesAfterEpoch ==
    \A i \in 1..Len(remote) :
        remote[i].CreatedDate = <<>> \/ remote[i].CreatedDate[1] > Epoch

\* the only failures are failed remote calls and the legacy run that finds
\* nothing to select
NoFailureFromDates ==
    (output.failed # "" \/ (result # Pending /\ result.kind = "threw")) =>
        \/ ListFailed
        \/ UpdateFailed
        \/ uniqueStages = <<>>

\* C15 as stated: a version without creation timestamp never causes a
\* failure; its labels get createdDate = epoch; and whenever a candidate is
\* produced while a non-excluded label of a timestamp-less version was
\* collected, the candidate is a label of a timestamp-less version.
C15_AsStated ==
    /\ NoFailureFromDates
    /\ \A i \in 1..Len(labeled) :
          TimestampLess(labeled[i].versionId) =>
              labeled[i].createdDate = Epoch
    /\ (/\ HasCandidate
        /\ \E i \in 1..Len(labeled) :
              /\ labeled[i].stage \notin params.excludeStages
              /\ TimestampLess(labeled[i].versionId))
       => TimestampLess(candidate.versionId)

\* C15 amended: a version without creation timestamp never causes a
\* failure; its labels get createdDate = epoch; and, present timestamps
\* being later than the epoch, whenever a candidate is produced while
\* uniqueStages holds a record of a timestamp-less version, the candidate is
\* a label of a timestamp-less version.
C15_MissingTimestamp ==
    /\ NoFailureFromDates
    /\ \A i \in 1..Len(labeled) :
          TimestampLess(labeled[i].versionId) =>
              labeled[i].createdDate = Epoch
    /\ (/\ HasCandidate
        /\ PresentDatesAfterEpoch
        /\ \E i \in 1..Len(uniqueStages) :
              TimestampLess(uniqueStages[i].versionId))
       => /\ TimestampLess(candidate.versionId)
          /\ candidate.createdDate = Epoch

\* a label of a timestamp-less version was removed although a label of a
\* dated version was seen before it
C15_Witness ==
    /\ pc = "done"
    /\ SucceededUpdates = 1
    /\ Len(uniqueStages) = 2
    /\ ~TimestampLess(uniqueStages[1].versionId)
    /\ TimestampLess(uniqueStages[2].versionId)
    /\ candidate = uniqueStages[2]

-----------------------------------------------------------------------------
\* Re-invocation (checked under RepeatSpec)

\* the previous invocation removed a label
AfterRemoval == lastRun # Undefined /\ lastRun.trimmed

\* the versions the previous invocation saw carrying stage s
SeenCarrying(s) ==
    {i \in 1..Len(lastRun.labeled) : lastRun.labeled[i].stage = s}

\* C16 as stated: after a run that removed {stage s, version v}, a second
\* run with the same threshold and exclusion set collects a strictly smaller
\* manageable stage count, and if that count is still over the threshold its
\* candidate is a stage different from s.
C16_AsStated ==
    (AfterRemoval /\ Collected) =>
        /\ Len(uniqueStages) < lastRun.manageableCount
        /\ HasCandidate => candidate.stage # lastRun.removed.stage

\* C16 amended: after a run that removed {stage s, version v}, a second run
\* with the same threshold and exclusion set collects a manageable stage
\* count that is not larger; when s was on no version other than v the count
\* is smaller by one and a candidate, if any, is a stage different from s;
\* when s was on another version too the count is the same.
C16_Reinvocation ==
    (AfterRemoval /\ Collected) =>
        /\ Len(uniqueStages) <= lastRun.manageableCount
        /\ Cardinality(SeenCarrying(lastRun.removed.stage)) = 1 =>
              /\ Len(uniqueStages) = lastRun.manageableCount - 1
              /\ HasCandidate => candidate.stage # lastRun.removed.stage
        /\ Cardinality(SeenCarrying(lastRun.removed.stage)) > 1 =>
              Len(uniqueStages) = lastRun.manageableCount

\* the second run, after the removal of a stage that was on one version
\* only, is still over the threshold and selects another stage
C16_Witness ==
    /\ AfterRemoval
    /\ Collected
    /\ Cardinality(SeenCarrying(lastRun.removed.stage)) = 1
    /\ HasCandidate
    /\ candidate.stage # lastRun.removed.stage
    /\ Len(uniqueStages) > params.threshold

-----------------------------------------------------------------------------
\* Continuation tokens and termination (checked under TokenSpec)

\* a response token that asks for another page
NonEmptyToken(tok) == tok # Undefined /\ tok # EmptyToken

\* C17: the first listing call carries no token; every later listing call
\* carries the token of the response just before it; and after a response
\* the loop goes on to another listing call if and only if that response
\* carried a non-empty token: an absent or empty-string token ends the
\* collection.
C17_TokenProtocol ==
    /\ Len(served) <= Len(ListCalls)
    /\ Len(ListCalls) <= Len(served) + 1
    /\ Len(ListCalls) >= 1 => ListCalls[1].NextToken = Undefined
    /\ \A k \in 2..Len(ListCalls) : ListCalls[k].NextToken = served[k - 1]
    /\ \A k \in 1..Len(served) :
          /\ NonEmptyToken(served[k]) =>
                (Len(ListCalls) > k \/ (Len(ListCalls) = k /\ pc = "listing"))
          /\ ~NonEmptyToken(served[k]) =>
                (Len(ListCalls) = k /\ pc # "listing")

\* two listing calls, the second carrying the first response's token and
\* answered with an empty-string token, which ended the collection
C17_Witness ==
    /\ service = "blank"
    /\ Len(ListCalls) = 2
    /\ Len(served) = 2
    /\ NonEmptyToken(served[1])
    /\ ListCalls[2].NextToken = served[1]
    /\ served[2] = EmptyToken
    /\ pc = "done"
    /\ Len(labeled) >= 2

\* the invocation ended with a result or a failure
Terminated ==
    /\ pc = "done"
    /\ output # NoOutput
    /\ entry = "action" => result # Pending

\* the run has reached neither the selection nor the mutation step
NeverSelects ==
    /\ candidate = Pending
    /\ uniqueStages = <<>>
    /\ UpdateCalls = <<>>
    /\ pc # "updating"
    /\ pc = "done" => ListFailed

\* C18: when the service ends its listing with a response without token
\* (and every remote call returns or fails) the invocation terminates with a
\* result or a failure; there is no page cap, so against a service that puts
\* a token on every response the run never reaches selection or mutation.
C18_Termination ==
    /\ (service # "endless") ~> Terminated
    /\ [](service = "endless" => NeverSelects)

\* a run against the endless service that is still listing after more
\* calls than there are versions
C18_Witness ==
    /\ service = "endless"
    /\ pc = "listing"
    /\ Len(ListCalls) > MaxVersions
    /\ Len(labeled) > TotalLabels(remote)

\* a run against a service that ended the listing on its second page and
\* terminated with a result
C18_WitnessTerminated ==
    /\ service = "paged"
    /\ Len(ListCalls) = 2
    /\ Terminated
    /\ output = SetTrimmed(TRUE)

-----------------------------------------------------------------------------
\* Convergence of repeated invocations (checked under ConvergeSpec)

\* the distinct non-excluded stage names attached to the versions
StagesOn(versions) ==
    UNION {{versions[i].VersionStages[k] :
               k \in 1..Len(versions[i].VersionStages)} :
           i \in 1..Len(versions)} \ params.excludeStages

RemoteCount == Cardinality(StagesOn(remote))

InitialCount == Cardinality(StagesOn(initial))

Min(a, b) == IF a <= b THEN a ELSE b

\* C19: with a fixed non-negative threshold and exclusion set, no failures
\* and no other writer, repeated non-dry-run invocations eventually reach a
\* remote state whose manageable stage count is <= threshold; from then on
\* no invocation issues a mutation; and the manageable count never goes
\* below min(initial manageable count, threshold).
C19_Convergence ==
    /\ <>[](RemoteCount <= params.threshold)
    /\ [](RemoteCount >= Min(InitialCount, params.threshold))
    /\ [][RemoteCount <= params.threshold =>
             (remote' = remote /\ pc' # "updating")]_vars

\* two invocations removed one label each, and the third, finding the count
\* at the threshold, ended without a mutation call
C19_Witness ==
    /\ InitialCount = params.threshold + 2
    /\ RemoteCount = params.threshold
    /\ lastRun # Undefined
    /\ lastRun.trimmed
    /\ pc = "done"
    /\ UpdateCalls = <<>>
    /\ output = SetTrimmed(FALSE)

-----------------------------------------------------------------------------
\* Two overlapping invocations (checked under OverlapSpec)

\* what an invocation would select from a complete listing of the secret as
\* it is now
FreshDecision == Decision(entry, CollectPage(<<>>, remote), params)

\* the second invocation selects in this step
OtherDecides == other.pc = "listing" /\ other'.pc = "updating"

\* the first invocation selects in this step
FirstDecides == pc = "listing" /\ pc' = "updating"

\* C20: with two invocations whose listing and mutation calls interleave in
\* any order, the manageable stage count of the secret never goes below
\* min(initial manageable count, threshold); an invocation that selects from
\* a stale or mixed view targets the label the other one targeted, or the
\* label a complete listing of the secret as it is now would select.
C20_Overlap ==
    /\ [](RemoteCount >= Min(InitialCount, params.threshold))
    /\ [][OtherDecides =>
             \/ other'.candidate = candidate
             \/ other'.candidate = FreshDecision]_vars
    /\ [][FirstDecides =>
             \/ candidate' = other.candidate
             \/ candidate' = FreshDecision]_vars

\* both invocations saw the secret one label over the threshold, both
\* targeted the same label, and the count ended at the threshold
C20_Witness ==
    /\ pc = "done"
    /\ other.pc = "done"
    /\ SucceededUpdates = 1
    /\ other.candidate = candidate
    /\ Len(other.labeled) = Len(labeled)
    /\ InitialCount = params.threshold + 1
    /\ RemoteCount = params.threshold
    /\ Len(ListCalls) = 2

\* the second invocation listed one page before and one page after the
\* first one's removal and removed another label
C20_WitnessMixed ==
    /\ pc = "done"
    /\ other.pc = "done"
    /\ SucceededUpdates = 1
    /\ other.candidate # Null
    /\ other.candidate # candidate
    /\ Len(other.labeled) < Len(labeled)
    /\ RemoteCount >= params.threshold

====
